---- MODULE Spec2Model ----
(***************************************************************************)
(* Model of lightrag/utils/document_converter.py: DocumentConverter and    *)
(* install_package_with_version.                                           *)
(*                                                                         *)
(* Text is a sequence of one-character strings.  A file's bytes are a      *)
(* short explicit prefix `head` (a sequence of byte values) followed by    *)
(* `pad` filler bytes 0x61 ("a"), so that files of several megabytes can   *)
(* be described; st_size is Len(head) + pad.  The value a third-party      *)
(* reader yields for a file (pages, paragraphs, slides, sheets, markdown)  *)
(* is the file's `doc` field.                                              *)
(***************************************************************************)
EXTENDS Integers, Sequences, FiniteSets, TLC

VARIABLES
    args,          \* lightrag.api.config.args after the module is imported
    engine,        \* DocumentConverter.engine
    pc,            \* position of the current convert_file call
    file,          \* the file the path given to the call names
    max_size_mb,   \* local max_size_mb of convert_file (<<>> is None)
    file_content,  \* local file_content (<<>> is None, <<b>> is bytes b)
    ext,           \* local ext
    trace,         \* what the call has done so far, in order
    result         \* what the call returned or raised (<<>> while running)

vars == <<args, engine, pc, file, max_size_mb, file_content, ext, trace, result>>

-----------------------------------------------------------------------------
(* Bounds of the model *)

MaxLen == 2        \* longest explicit byte prefix of a file
MaxItems == 2      \* most paragraphs / slides / shapes / sheets / rows / columns

-----------------------------------------------------------------------------
(* Python values *)

None == <<>>
Some(v) == <<v>>

SeqsUpTo(S, n) == UNION {[1..k -> S] : k \in 0..n}

RECURSIVE Concat(_)
Concat(ss) == IF ss = <<>> THEN <<>> ELSE Head(ss) \o Concat(Tail(ss))

(* Variant: the suffix is compared as spelled *)
KeepCase(s) == s

(* str.lower() on the characters a suffix is made of *)
UpperToLower ==
    "A" :> "a" @@ "B" :> "b" @@ "C" :> "c" @@ "D" :> "d" @@ "E" :> "e" @@
    "F" :> "f" @@ "G" :> "g" @@ "H" :> "h" @@ "I" :> "i" @@ "J" :> "j" @@
    "K" :> "k" @@ "L" :> "l" @@ "M" :> "m" @@ "N" :> "n" @@ "O" :> "o" @@
    "P" :> "p" @@ "Q" :> "q" @@ "R" :> "r" @@ "S" :> "s" @@ "T" :> "t" @@
    "U" :> "u" @@ "V" :> "v" @@ "W" :> "w" @@ "X" :> "x" @@ "Y" :> "y" @@
    "Z" :> "z"

Lower(s) == [i \in 1..Len(s) |->
                IF s[i] \in DOMAIN UpperToLower THEN UpperToLower[s[i]] ELSE s[i]]

-----------------------------------------------------------------------------
(* Extension tables of convert_file *)

DirectTextExts ==
    { <<".","t","x","t">>, <<".","m","d">>, <<".","h","t","m","l">>,
      <<".","h","t","m">>, <<".","p","y">>, <<".","j","s">> }

TextExts ==
    { <<".","t","x","t">>, <<".","m","d">>, <<".","h","t","m","l">>,
      <<".","h","t","m">>, <<".","t","e","x">>, <<".","j","s","o","n">>,
      <<".","x","m","l">>,
      <<".","y","a","m","l">>, <<".","y","m","l">>, <<".","r","t","f">>,
      <<".","o","d","t">>, <<".","e","p","u","b">>, <<".","c","s","v">>,
      <<".","l","o","g">>,
      <<".","c","o","n","f">>, <<".","i","n","i">>,
      <<".","p","r","o","p","e","r","t","i","e","s">>, <<".","s","q","l">>,
      <<".","b","a","t">>, <<".","s","h">>,
      <<".","c">>, <<".","c","p","p">>, <<".","p","y">>,
      <<".","j","a","v","a">>, <<".","j","s">>, <<".","t","s">>,
      <<".","s","w","i","f","t">>,
      <<".","g","o">>, <<".","r","b">>, <<".","p","h","p">>,
      <<".","c","s","s">>, <<".","s","c","s","s">>, <<".","l","e","s","s">> }

PdfExt == <<".","p","d","f">>
DocxExt == <<".","d","o","c","x">>
PptxExt == <<".","p","p","t","x">>
XlsxExt == <<".","x","l","s","x">>

DocExts == {PdfExt, DocxExt, PptxExt, XlsxExt}

-----------------------------------------------------------------------------
(* Module import: the defaults given to args where it has no such attribute *)

Defaults ==
    [ max_file_size_mb |-> 10,
      pdf_reader |-> "pypdf2", pdf_reader_version |-> "latest",
      docx_reader |-> "python-docx", docx_reader_version |-> "latest",
      docx_reader_fallback |-> "docx", docx_reader_fallback_version |-> "latest",
      pptx_reader |-> "python-pptx", pptx_reader_version |-> "latest",
      pptx_reader_fallback |-> "pptx", pptx_reader_fallback_version |-> "latest",
      xlsx_reader |-> "openpyxl", xlsx_reader_version |-> "latest",
      doc_converter |-> "docling", doc_converter_version |-> "latest" ]

(* args as the configuration layer leaves it, before this module is imported *)
Presets ==
    { <<>>,
      [max_file_size_mb |-> 1],
      [docx_reader |-> "python-docx", docx_reader_version |-> "1.1.2"] }

ImportModule(preset) ==
    [a \in DOMAIN Defaults |->
        IF a \in DOMAIN preset THEN preset[a] ELSE Defaults[a]]

Engines == {"DOCLING", "DEFAULT", "docling"}

-----------------------------------------------------------------------------
(* bytes.decode("utf-8") and the text-mode read of open(..., "r") *)

Bytes == {10, 13, 97, 169, 195, 255}

Chr == 10 :> "\n" @@ 13 :> "\r" @@ 97 :> "a" @@ 233 :> "U+00E9"

(* One- and two-byte forms; the byte alphabet has no lead byte of a longer *)
(* form, and 255 is never valid.                                           *)
RECURSIVE Utf8Decode(_)
Utf8Decode(bs) ==
    IF bs = <<>> THEN [ok |-> TRUE, text |-> <<>>]
    ELSE IF bs[1] < 128
         THEN LET r == Utf8Decode(Tail(bs))
              IN  [ok |-> r.ok, text |-> <<Chr[bs[1]]>> \o r.text]
    ELSE IF bs[1] \in 194..223 /\ Len(bs) >= 2 /\ bs[2] \in 128..191
         THEN LET r == Utf8Decode(Tail(Tail(bs)))
                  cp == (bs[1] - 192) * 64 + (bs[2] - 128)
              IN  [ok |-> r.ok, text |-> <<Chr[cp]>> \o r.text]
    ELSE [ok |-> FALSE, text |-> <<>>]

(* newline=None: "\r\n" and a lone "\r" are read as "\n" *)
RECURSIVE UniversalNewlines(_)
UniversalNewlines(t) ==
    IF t = <<>> THEN <<>>
    ELSE IF t[1] = "\r"
         THEN <<"\n">> \o UniversalNewlines(
                  IF Len(t) >= 2 /\ t[2] = "\n" THEN Tail(Tail(t)) ELSE Tail(t))
    ELSE <<t[1]>> \o UniversalNewlines(Tail(t))

-----------------------------------------------------------------------------
(* What the third-party readers yield for a document *)

NoDoc == [kind |-> "none"]

Texts == {<<>>, <<"p">>, <<"q", "\n", "r">>}

PdfDocs ==
    {[kind |-> "pdf", pages |-> ps, markdown |-> <<"#", "d">>] :
        ps \in SeqsUpTo(Texts, MaxItems)}

DocxDocs ==
    {[kind |-> "docx", paragraphs |-> ps, markdown |-> <<"#", "w">>] :
        ps \in SeqsUpTo(Texts, MaxItems)}

Shapes ==
    { [has_text |-> FALSE],
      [has_text |-> TRUE, text |-> <<>>],
      [has_text |-> TRUE, text |-> <<"s">>] }

MoreSlides == { <<[has_text |-> TRUE, text |-> <<"t">>]>>, <<>> }

PptxDocs ==
    {[kind |-> "pptx", slides |-> ss, markdown |-> <<"#", "s">>] :
        ss \in {<<>>} \cup
               {<<first>> \o rest : first \in SeqsUpTo(Shapes, MaxItems),
                                    rest \in SeqsUpTo(MoreSlides, MaxItems - 1)}}

NoneCell == [t |-> "none"]
IntCell(n) == [t |-> "int", n |-> n]
StrCell(x) == [t |-> "str", s |-> x]

(* The cell in row r, column c of a sheet with nc columns, by its filling *)
Fills == {"count", "last_none", "negative", "string", "empty"}

CellOf(fill, r, c, nr, nc) ==
    CASE fill = "count" -> IntCell((r - 1) * nc + c)
      [] fill = "last_none" ->
            IF r = nr /\ c = nc THEN NoneCell ELSE IntCell((r - 1) * nc + c)
      [] fill = "negative" -> IntCell(0 - (10 * r + c))
      [] fill = "string" -> StrCell(<<"x">>)
      [] OTHER -> NoneCell

Titles == { <<"S","h","e","e","t","1">>, <<"D","a","t","a">> }

Sheets ==
    {[title |-> t,
      rows |-> [r \in 1..nr |-> [c \in 1..nc |-> CellOf(fill, r, c, nr, nc)]]] :
        t \in Titles, nr \in 0..MaxItems, nc \in 1..MaxItems, fill \in Fills}

MoreSheets ==
    { [title |-> <<"T">>, rows |-> <<>>],
      [title |-> <<"U">>, rows |-> << <<IntCell(7), NoneCell>> >>] }

XlsxDocs ==
    {[kind |-> "xlsx", sheets |-> <<first>> \o rest, markdown |-> <<"#", "x">>] :
        first \in Sheets, rest \in SeqsUpTo(MoreSheets, MaxItems - 1)}

-----------------------------------------------------------------------------
(* The text extraction of the per-format branches *)

Digit == [d \in 0..9 |->
            <<"0", "1", "2", "3", "4", "5", "6", "7", "8", "9">>[d + 1]]

RECURSIVE NatToStr(_)
NatToStr(n) == IF n < 10 THEN <<Digit[n]>>
               ELSE NatToStr(n \div 10) \o <<Digit[n % 10]>>

(* str(cell) if cell is not None else "" *)
CellStr(cell) ==
    CASE cell.t = "none" -> <<>>
      [] cell.t = "int" ->
            IF cell.n < 0 THEN <<"-">> \o NatToStr(0 - cell.n) ELSE NatToStr(cell.n)
      [] OTHER -> cell.s

(* sep.join(parts) *)
RECURSIVE Join(_, _)
Join(sep, parts) ==
    IF parts = <<>> THEN <<>>
    ELSE IF Len(parts) = 1 THEN parts[1]
    ELSE parts[1] \o sep \o Join(sep, Tail(parts))

(* for page in reader.pages: content += page.extract_text() + "\n" *)
PdfText(doc) == Concat([i \in 1..Len(doc.pages) |-> doc.pages[i] \o <<"\n">>])

(* "\n".join([paragraph.text for paragraph in doc.paragraphs]) *)
DocxText(doc) == Join(<<"\n">>, doc.paragraphs)

SlideText(slide) ==
    Concat([i \in 1..Len(slide) |->
               IF slide[i].has_text THEN slide[i].text \o <<"\n">> ELSE <<>>])

PptxText(doc) == Concat([i \in 1..Len(doc.slides) |-> SlideText(doc.slides[i])])

RowText(row) ==
    Join(<<"\t">>, [c \in 1..Len(row) |-> CellStr(row[c])]) \o <<"\n">>

(* Variant: no empty line after a sheet *)
SheetTextNoBlankLine(sheet) ==
    <<"S","h","e","e","t",":"," ">> \o sheet.title \o <<"\n">>
        \o Concat([r \in 1..Len(sheet.rows) |-> RowText(sheet.rows[r])])

SheetText(sheet) ==
    <<"S","h","e","e","t",":"," ">> \o sheet.title \o <<"\n">>
        \o Concat([r \in 1..Len(sheet.rows) |-> RowText(sheet.rows[r])])
        \o <<"\n">>

XlsxText(doc) == Concat([i \in 1..Len(doc.sheets) |-> SheetText(doc.sheets[i])])

-----------------------------------------------------------------------------
(* Files and the arguments of the calls *)

MB == 1024 * 1024

Size(f) == Len(f.head) + f.pad

Pads == {0, MB - 1, 9 * MB, 10 * MB - 1, 11 * MB}

SizeArgs == {None, Some(0), Some(1), Some(10)}

SuffixSamples ==
    { <<>>, <<".","x","y","z">>, <<".","X","Y","Z">>, <<".","d","o","c">>,
      <<".","t","x","t">>, <<".","T","X","T">>, <<".","J","s","o","n">>,
      <<".","c","s","v">>,
      <<".","p","d","f">>, <<".","P","D","F">>, <<".","d","o","c","x">>,
      <<".","D","o","c","X">>, <<".","p","p","t","x">>, <<".","P","P","T","X">>,
      <<".","x","l","s","x">>, <<".","X","L","S","X">> }

SampleDoc(suffix) ==
    CASE Lower(suffix) = PdfExt ->
            [kind |-> "pdf", pages |-> << <<"p">> >>, markdown |-> <<"#">>]
      [] Lower(suffix) = DocxExt ->
            [kind |-> "docx", paragraphs |-> << <<"p">>, <<"q">> >>,
             markdown |-> <<"#">>]
      [] Lower(suffix) = PptxExt ->
            [kind |-> "pptx",
             slides |-> << <<[has_text |-> TRUE, text |-> <<"s">>]>> >>,
             markdown |-> <<"#">>]
      [] Lower(suffix) = XlsxExt ->
            [kind |-> "xlsx",
             sheets |-> << [title |-> <<"T">>, rows |-> << <<IntCell(7)>> >>] >>,
             markdown |-> <<"#">>]
      [] OTHER -> NoDoc

MissingFiles ==
    {[exists |-> FALSE, suffix |-> sx, head |-> <<>>, pad |-> 0, doc |-> NoDoc] :
        sx \in SuffixSamples}

(* files of every sampled suffix and of sizes around the limits; a document *)
(* a reader can open is never empty                                         *)
ProbeFiles ==
    {f \in [exists : {TRUE}, suffix : SuffixSamples,
            head : SeqsUpTo({97}, MaxLen), pad : Pads, doc : {NoDoc}] :
        Lower(f.suffix) \notin DocExts}
    \cup
    {[exists |-> TRUE, suffix |-> sx, head |-> h, pad |-> p,
      doc |-> SampleDoc(sx)] :
        sx \in {x \in SuffixSamples : Lower(x) \in DocExts},
        h \in SeqsUpTo({97}, MaxLen) \ {<<>>}, p \in Pads}

TextFiles ==
    [exists : {TRUE}, suffix : TextExts, head : SeqsUpTo(Bytes, MaxLen),
     pad : {0}, doc : {NoDoc}]

DocSuffix(doc) ==
    CASE doc.kind = "pdf" -> PdfExt
      [] doc.kind = "docx" -> DocxExt
      [] doc.kind = "pptx" -> PptxExt
      [] OTHER -> XlsxExt

DocFiles ==
    {[exists |-> TRUE, suffix |-> DocSuffix(d), head |-> <<97>>, pad |-> 0,
      doc |-> d] : d \in PdfDocs \cup DocxDocs \cup PptxDocs \cup XlsxDocs}

Files == MissingFiles \cup ProbeFiles \cup TextFiles \cup DocFiles

ArgsFor(f) == IF f \in MissingFiles \cup ProbeFiles THEN SizeArgs ELSE {None}

NoFile == [exists |-> FALSE, suffix |-> <<>>, head |-> <<>>, pad |-> 0,
           doc |-> NoDoc]

-----------------------------------------------------------------------------
(* Results and the entries of the trace *)

Running == [kind |-> "running"]

Ok(text, filler) == [kind |-> "ok", text |-> text, filler |-> filler]

(* f"{file_size_mb:.2f}": hundredths of a MB, correctly rounded, ties to even *)
Round2(size) ==
    LET q == (size * 100) \div MB
        r == (size * 100) % MB
    IN  IF 2 * r > MB \/ (2 * r = MB /\ q % 2 = 1) THEN q + 1 ELSE q

FileNotFound == [kind |-> "FileNotFoundError"]

TooLarge(size, limit) ==
    [kind |-> "ValueError", what |-> "TooLarge",
     actual |-> Round2(size), allowed |-> limit]

UnsupportedType(e) ==
    [kind |-> "ValueError", what |-> "UnsupportedType", ext |-> e]

DecodeError == [kind |-> "UnicodeDecodeError"]

InstallError(package) == [kind |-> "InstallError", package |-> package]

ModuleNotFound(module) == [kind |-> "ModuleNotFoundError", module |-> module]

Ev(name) == [ev |-> name]

LogEv(level, about) == [ev |-> "log", level |-> level, about |-> about]

OpenEv(lib, via) == [ev |-> "open", lib |-> lib, via |-> via]

(* logger.info(...); pm.install_version(package_name, version) *)
install_package_with_version(package_name, version, raised) ==
    << LogEv("info", package_name),
       [ev |-> "install", package |-> package_name, version |-> version,
        raised |-> raised] >>

(* `if file_content:` - None and b"" are both false *)
Truthy(fc) == fc # None /\ Size(fc[1]) > 0

Via(fc) == IF Truthy(fc) THEN "bytes" ELSE "path"

-----------------------------------------------------------------------------
(* The converter *)

Init ==
    /\ args \in {ImportModule(preset) : preset \in Presets}
    /\ engine \in Engines
    /\ pc = "idle"
    /\ file = NoFile
    /\ max_size_mb = None
    /\ file_content = None
    /\ ext = <<>>
    /\ trace = <<>>
    /\ result = Running

Raise(e, tr) ==
    /\ result' = e
    /\ trace' = tr
    /\ pc' = "done"

Finish(text, filler, tr) ==
    /\ result' = Ok(text, filler)
    /\ trace' = tr
    /\ pc' = "done"

Goto(label, tr) ==
    /\ pc' = label
    /\ trace' = tr
    /\ result' = result

(* Variant: the universal converter is installed as soon as the call starts *)
CallInstallingEagerly(f, m) ==
    /\ file' = f
    /\ max_size_mb' = IF m = None THEN Some(args.max_file_size_mb) ELSE m
    /\ file_content' = None
    /\ ext' = <<>>
    /\ trace' = <<[ev |-> "call", max_size_mb |-> m]>>
                    \o install_package_with_version(
                           args.doc_converter, args.doc_converter_version, FALSE)
    /\ result' = Running
    /\ pc' = "validate"
    /\ UNCHANGED <<args, engine>>

(* convert_file is called; max_size_mb defaults to the global setting *)
Call(f, m) ==
    /\ file' = f
    /\ max_size_mb' = IF m = None THEN Some(args.max_file_size_mb) ELSE m
    /\ file_content' = None
    /\ ext' = <<>>
    /\ trace' = <<[ev |-> "call", max_size_mb |-> m]>>
    /\ result' = Running
    /\ pc' = "validate"
    /\ UNCHANGED <<args, engine>>

convert_file ==
    /\ pc = "idle"
    /\ \E f \in Files : \E m \in ArgsFor(f) : Call(f, m)

(* Variant: a file of exactly the limit is rejected too *)
ExceedsLimitInclusive(size, limit) == size >= limit * MB

(* file_size_mb > max_size_mb, with file_size_mb = st_size / (1024 * 1024) *)
ExceedsLimit(size, limit) == size > limit * MB

(* Variant: the existence check is left out *)
ValidateWithoutExistsCheck ==
    /\ pc = "validate"
    /\ IF ExceedsLimit(Size(file), max_size_mb[1])
       THEN Raise(TooLarge(Size(file), max_size_mb[1]), trace \o <<Ev("stat")>>)
       ELSE Goto("dispatch", trace \o <<Ev("stat")>>)
    /\ UNCHANGED <<args, engine, file, max_size_mb, file_content, ext>>

(* the existence check and the size check *)
Validate ==
    /\ pc = "validate"
    /\ IF ~file.exists
       THEN Raise(FileNotFound, trace \o <<Ev("exists")>>)
       ELSE IF ExceedsLimit(Size(file), max_size_mb[1])
            THEN Raise(TooLarge(Size(file), max_size_mb[1]),
                       trace \o <<Ev("exists"), Ev("stat")>>)
            ELSE Goto("dispatch", trace \o <<Ev("exists"), Ev("stat")>>)
    /\ UNCHANGED <<args, engine, file, max_size_mb, file_content, ext>>

(* the bytes convert_file reads before it dispatches *)
PreRead(f) ==
    IF Lower(f.suffix) \in DirectTextExts THEN None
    ELSE Some([head |-> f.head, pad |-> f.pad])

Branch(e) ==
    CASE e \in TextExts -> "text"
      [] e = PdfExt -> "pdf"
      [] e = DocxExt -> "docx"
      [] e = PptxExt -> "pptx"
      [] e = XlsxExt -> "xlsx"
      [] OTHER -> "unsupported"

(* read the content, then process based on file type *)
Dispatch ==
    /\ pc = "dispatch"
    /\ file_content' = PreRead(file)
    /\ ext' = Lower(file.suffix)
    /\ LET tr == IF PreRead(file) = None THEN trace
                 ELSE trace \o <<Ev("read_bytes")>>
       IN  IF Branch(ext') = "unsupported"
           THEN Raise(UnsupportedType(ext'), tr)
           ELSE Goto(Branch(ext'), tr)
    /\ UNCHANGED <<args, engine, file, max_size_mb>>

DecodeBytes(fc) ==
    IF Utf8Decode(fc[1].head).ok
    THEN [result |-> Ok(Utf8Decode(fc[1].head).text, fc[1].pad), events |-> <<>>]
    ELSE [result |-> DecodeError, events |-> <<LogEv("error", "file_name")>>]

ReadText(f) ==
    IF Utf8Decode(f.head).ok
    THEN [result |-> Ok(UniversalNewlines(Utf8Decode(f.head).text), f.pad),
          events |-> <<Ev("read_text")>>]
    ELSE [result |-> DecodeError, events |-> <<Ev("read_text")>>]

_convert_text_file ==
    /\ pc = "text"
    /\ LET r == IF Truthy(file_content) THEN DecodeBytes(file_content)
                ELSE ReadText(file)
       IN  /\ result' = r.result
           /\ trace' = trace \o r.events
           /\ pc' = "done"
    /\ UNCHANGED <<args, engine, file, max_size_mb, file_content, ext>>

(* Variant: the engine name is compared without regard to case *)
IsDoclingAnyCase == engine \in {"DOCLING", "docling"}

IsDocling == engine = "DOCLING"

(* Variant: a failed install is ignored *)
InstallIgnoringFailure(package, version, raised, module, lib, text) ==
    Finish(text, 0,
           trace \o install_package_with_version(package, version, raised)
                 \o <<[ev |-> "import", module |-> module],
                      OpenEv(lib, Via(file_content))>>)

(* one install, then import, open and extract *)
InstallThenRead(package, version, raised, module, lib, text) ==
    LET tr == trace \o install_package_with_version(package, version, raised)
    IN  IF raised THEN Raise(InstallError(package), tr)
        ELSE Finish(text, 0,
                    tr \o <<[ev |-> "import", module |-> module],
                            OpenEv(lib, Via(file_content))>>)

(* The distribution installed as args.pdf_reader provides the module      *)
(* PyPDF2; whether `from pypdf2 import PdfReader` finds it depends on the  *)
(* platform's module lookup, so the import either succeeds or raises.      *)
_convert_pdf ==
    /\ pc = "pdf"
    /\ IF IsDocling THEN Goto("docling", trace)
       ELSE \E raised, imported \in BOOLEAN :
              IF raised \/ imported
              THEN InstallThenRead(args.pdf_reader, args.pdf_reader_version,
                                   raised, "pypdf2", "pdf", PdfText(file.doc))
              ELSE Raise(ModuleNotFound("pypdf2"),
                         trace \o install_package_with_version(
                                     args.pdf_reader, args.pdf_reader_version, FALSE)
                               \o <<[ev |-> "import", module |-> "pypdf2"]>>)
    /\ UNCHANGED <<args, engine, file, max_size_mb, file_content, ext>>

(* Variant: no fallback; a failed primary install fails the call *)
InstallWithoutFallback(primary, pversion, fallback, fversion, raised1, raised2, module, lib, text) ==
    LET tr == trace \o install_package_with_version(primary, pversion, raised1)
    IN  IF raised1 THEN Raise(InstallError(primary), tr)
        ELSE Finish(text, 0,
                    tr \o <<[ev |-> "import", module |-> module],
                            OpenEv(lib, Via(file_content))>>)

(* try the primary install; on an exception install the fallback instead *)
InstallWithFallback(primary, pversion, fallback, fversion, raised1, raised2, module, lib, text) ==
    LET tr1 == trace \o install_package_with_version(primary, pversion, raised1)
        tr2 == IF raised1
               THEN tr1 \o install_package_with_version(fallback, fversion, raised2)
               ELSE tr1
    IN  IF raised1 /\ raised2 THEN Raise(InstallError(fallback), tr2)
        ELSE Finish(text, 0,
                    tr2 \o <<[ev |-> "import", module |-> module],
                             OpenEv(lib, Via(file_content))>>)

_convert_docx ==
    /\ pc = "docx"
    /\ IF IsDocling THEN Goto("docling", trace)
       ELSE \E raised1, raised2 \in BOOLEAN :
              InstallWithFallback(args.docx_reader, args.docx_reader_version,
                                  args.docx_reader_fallback,
                                  args.docx_reader_fallback_version,
                                  raised1, raised2, "docx", "docx",
                                  DocxText(file.doc))
    /\ UNCHANGED <<args, engine, file, max_size_mb, file_content, ext>>

_convert_pptx ==
    /\ pc = "pptx"
    /\ IF IsDocling THEN Goto("docling", trace)
       ELSE \E raised1, raised2 \in BOOLEAN :
              InstallWithFallback(args.pptx_reader, args.pptx_reader_version,
                                  args.pptx_reader_fallback,
                                  args.pptx_reader_fallback_version,
                                  raised1, raised2, "pptx", "pptx",
                                  PptxText(file.doc))
    /\ UNCHANGED <<args, engine, file, max_size_mb, file_content, ext>>

_convert_xlsx ==
    /\ pc = "xlsx"
    /\ IF IsDocling THEN Goto("docling", trace)
       ELSE \E raised \in BOOLEAN :
              InstallThenRead(args.xlsx_reader, args.xlsx_reader_version,
                              raised, "openpyxl", "xlsx", XlsxText(file.doc))
    /\ UNCHANGED <<args, engine, file, max_size_mb, file_content, ext>>

(* install docling, convert the path, export to markdown *)
_convert_with_docling ==
    /\ pc = "docling"
    /\ \E raised \in BOOLEAN :
         LET tr == trace \o install_package_with_version(
                                args.doc_converter, args.doc_converter_version,
                                raised)
         IN  IF raised THEN Raise(InstallError(args.doc_converter), tr)
             ELSE Finish(file.doc.markdown, 0,
                         tr \o <<[ev |-> "import", module |-> "docling"],
                                 OpenEv("docling", "path")>>)
    /\ UNCHANGED <<args, engine, file, max_size_mb, file_content, ext>>

(* the call returns or raises to its caller; nothing of it is kept *)
Return ==
    /\ pc = "done"
    /\ pc' = "idle"
    /\ file' = NoFile
    /\ max_size_mb' = None
    /\ file_content' = None
    /\ ext' = <<>>
    /\ trace' = <<>>
    /\ result' = Running
    /\ UNCHANGED <<args, engine>>

Next ==
    \/ convert_file
    \/ Validate
    \/ Dispatch
    \/ _convert_text_file
    \/ _convert_pdf
    \/ _convert_docx
    \/ _convert_pptx
    \/ _convert_xlsx
    \/ _convert_with_docling
    \/ Return

Spec == Init /\ [][Next]_vars

-----------------------------------------------------------------------------
(* Vocabulary of the properties *)

Done == pc = "done"

IsInstall(e) == e.ev = "install"
IsOpen(e) == e.ev = "open"
IsImport(e) == e.ev = "import"
IsErrorLog(e) == e.ev = "log" /\ e.level = "error"

Installs == SelectSeq(trace, IsInstall)
Opens == SelectSeq(trace, IsOpen)
Imports == SelectSeq(trace, IsImport)
ErrorLogs == SelectSeq(trace, IsErrorLog)

(* the max_size_mb argument the caller passed *)
PassedLimit == trace[1].max_size_mb

EffectiveLimit ==
    IF PassedLimit = None THEN args.max_file_size_mb ELSE PassedLimit[1]

IsTooLarge == result.kind = "ValueError" /\ result.what = "TooLarge"
IsUnsupported == result.kind = "ValueError" /\ result.what = "UnsupportedType"
IsNotFound == result.kind = "FileNotFoundError"

(* the file exists and its size is within the effective limit *)
Validated == file.exists /\ Size(file) <= EffectiveLimit * MB

PerFormat == engine # "DOCLING"

-----------------------------------------------------------------------------
(* C1: for an existing file, in every engine mode, convert_file ends in    *)
(* TooLarge exactly when the size is strictly more than the effective      *)
(* limit in MB - the explicit argument when one is passed (0 included),    *)
(* args.max_file_size_mb when it is None; a size equal to the limit        *)
(* passes; the error reports the limit applied and the size to two         *)
(* decimals of a MB.                                                       *)
C1_TooLargeIffOverLimit ==
    (Done /\ file.exists) =>
        /\ IsTooLarge <=> (Size(file) > EffectiveLimit * MB)
        /\ IsTooLarge =>
              /\ result.allowed = EffectiveLimit
              /\ 2 * (result.actual * MB - 100 * Size(file)) <= MB
              /\ 2 * (100 * Size(file) - result.actual * MB) <= MB

C1_Witness ==
    /\ Done
    /\ file.exists
    /\ PassedLimit = Some(0)
    /\ args.max_file_size_mb = 10
    /\ Size(file) = 1
    /\ IsTooLarge

C1_WitnessAtLimit ==
    /\ Done
    /\ PassedLimit = None
    /\ Size(file) = 10 * MB
    /\ result.kind = "ok"

(* C2: a missing file always ends in FileNotFoundError, whatever its       *)
(* extension, the engine and max_size_mb; nothing but the existence check  *)
(* has been done by then.                                                  *)
C2_MissingIsNotFound ==
    (Done /\ ~file.exists) =>
        /\ IsNotFound
        /\ trace = <<[ev |-> "call", max_size_mb |-> PassedLimit], Ev("exists")>>

C2_Witness ==
    /\ Done
    /\ ~file.exists
    /\ file.suffix = <<".","X","Y","Z">>
    /\ PassedLimit = Some(0)
    /\ IsNotFound

(* C3: an existing file within the limit whose extension, lower-cased,  *)
(* is in none of the handled sets (no extension included) ends in          *)
(* ValueError "Unsupported file type" naming the extension, in every       *)
(* engine mode; an upper- or mixed-case spelling of a handled extension    *)
(* is routed like the lower-case one and never ends that way.              *)
UnhandledSuffixes ==
    { <<>>, <<".","x","y","z">>, <<".","X","Y","Z">>, <<".","d","o","c">> }

NamedExtension ==
    <<>> :> <<>> @@
    <<".","x","y","z">> :> <<".","x","y","z">> @@
    <<".","X","Y","Z">> :> <<".","x","y","z">> @@
    <<".","d","o","c">> :> <<".","d","o","c">>

C3_UnsupportedType ==
    (Done /\ Validated) =>
        /\ file.suffix \in UnhandledSuffixes =>
              result = [kind |-> "ValueError", what |-> "UnsupportedType",
                        ext |-> NamedExtension[file.suffix]]
        /\ file.suffix \notin UnhandledSuffixes => ~IsUnsupported

C3_Witness ==
    /\ Done
    /\ Validated
    /\ file.suffix = <<".","X","Y","Z">>
    /\ engine = "DEFAULT"
    /\ IsUnsupported

C3_WitnessUpperCase ==
    /\ Done
    /\ file.suffix = <<".","P","D","F">>
    /\ result.kind = "ok"

(* C4, as stated: the universal converter is invoked, and its markdown     *)
(* export returned, exactly when the engine is "DOCLING" and the validated *)
(* file's extension is .pdf, .docx, .pptx or .xlsx.                        *)
UniversalCase == Validated /\ engine = "DOCLING" /\ Lower(file.suffix) \in DocExts

ConverterInvoked == \E i \in 1..Len(Opens) : Opens[i].lib = "docling"

C4_Original ==
    Done =>
        /\ ConverterInvoked <=> UniversalCase
        /\ UniversalCase => result = Ok(file.doc.markdown, 0)

(* C4, amended: the universal-converter package install is attempted       *)
(* exactly when the engine is "DOCLING" and the validated file's extension *)
(* is one of the four; it is then the call's only install, and no          *)
(* format-specific library is imported or opened; when that install        *)
(* succeeds the converter is invoked on the path and its markdown export   *)
(* returned, and when it raises the call fails with the install error and  *)
(* the converter is not invoked.  In every other case the universal        *)
(* converter is neither installed nor invoked.                             *)
UniversalInstalls ==
    SelectSeq(Installs, LAMBDA e : e.package = args.doc_converter)

C4_UniversalConverter ==
    Done =>
        /\ (UniversalInstalls # <<>>) <=> UniversalCase
        /\ ConverterInvoked => UniversalCase
        /\ UniversalCase =>
              /\ Len(Installs) = 1
              /\ \A i \in 1..Len(Opens) : Opens[i].lib = "docling"
              /\ \A i \in 1..Len(Imports) : Imports[i].module = "docling"
              /\ ~Installs[1].raised =>
                    /\ Opens = <<OpenEv("docling", "path")>>
                    /\ result = Ok(file.doc.markdown, 0)
              /\ Installs[1].raised =>
                    /\ Opens = <<>>
                    /\ result = InstallError(args.doc_converter)

C4_Witness ==
    /\ Done
    /\ UniversalCase
    /\ file.doc.kind = "xlsx"
    /\ ~Installs[1].raised
    /\ result = Ok(<<"#", "x">>, 0)

(* C5, as stated: for every plain-text extension and every existing,       *)
(* within-limit file holding valid UTF-8 (empty, or with CR / CRLF line    *)
(* endings, included) convert_file returns exactly the UTF-8 decoding of   *)
(* the bytes, on the pre-read path and on the direct text-read path alike. *)
C5_ReturnsDecodedContent ==
    (Done /\ Validated /\ Lower(file.suffix) \in TextExts
          /\ Utf8Decode(file.head).ok) =>
        result = Ok(Utf8Decode(file.head).text, file.pad)

(* C6: in per-format mode, for .docx and .pptx, the fallback package is  *)
(* installed exactly when the primary install raises; when the primary     *)
(* raises and the fallback installs, the call does not fail: it opens the  *)
(* document and returns the text it returns when the primary installs      *)
(* (for DOCX the paragraph texts, in order, with a newline between them).  *)
NewlineBetween(ps) ==
    Concat([i \in 1..Len(ps) |->
               IF i < Len(ps) THEN ps[i] \o <<"\n">> ELSE ps[i]])

PrimaryOf(e) == IF e = DocxExt THEN args.docx_reader ELSE args.pptx_reader

FallbackOf(e) ==
    IF e = DocxExt THEN args.docx_reader_fallback ELSE args.pptx_reader_fallback

C6_FallbackInstall ==
    (Done /\ PerFormat /\ Validated /\ Lower(file.suffix) \in {DocxExt, PptxExt}) =>
        LET e == Lower(file.suffix) IN
        /\ Len(Installs) \in {1, 2}
        /\ Installs[1].package = PrimaryOf(e)
        /\ (Len(Installs) = 2) <=> Installs[1].raised
        /\ Len(Installs) = 2 => Installs[2].package = FallbackOf(e)
        /\ (Len(Installs) = 2 /\ ~Installs[2].raised) =>
              /\ Opens = <<OpenEv(file.doc.kind, "bytes")>>
              /\ result.kind = "ok"
              /\ e = DocxExt => result.text = NewlineBetween(file.doc.paragraphs)
              /\ e = PptxExt => result.text = PptxText(file.doc)

C6_Witness ==
    /\ Done
    /\ PerFormat
    /\ Lower(file.suffix) = DocxExt
    /\ Len(Installs) = 2
    /\ Installs[1].raised /\ ~Installs[2].raised
    /\ Len(file.doc.paragraphs) = 2
    /\ result.kind = "ok"

(* C7: in per-format mode the .xlsx result is, sheet by sheet in workbook  *)
(* order, the line "Sheet: <title>", one line per row with the cells       *)
(* joined by tabs (None as the empty string), and one empty line; the      *)
(* workbook with the one sheet "Sheet1" and rows [[1,2],[3,None]] gives    *)
(* "Sheet: Sheet1\n1\t2\n3\t\n\n"; k sheets give k "Sheet:" lines, and the *)
(* text ends with an empty line.                                           *)
RECURSIVE SplitLines(_, _)
SplitLines(t, line) ==
    IF t = <<>> THEN <<line>>
    ELSE IF t[1] = "\n" THEN <<line>> \o SplitLines(Tail(t), <<>>)
    ELSE SplitLines(Tail(t), line \o <<t[1]>>)

SheetPrefix == <<"S","h","e","e","t",":"," ">>

IsHeaderLine(l) ==
    Len(l) >= Len(SheetPrefix) /\ SubSeq(l, 1, Len(SheetPrefix)) = SheetPrefix

TabJoined(row) ==
    Concat([c \in 1..Len(row) |->
               IF c < Len(row) THEN CellStr(row[c]) \o <<"\t">>
               ELSE CellStr(row[c])])

(* the lines of one sheet: header, rows, empty line *)
SheetLines(sheet) ==
    <<SheetPrefix \o sheet.title>>
        \o [r \in 1..Len(sheet.rows) |-> TabJoined(sheet.rows[r])]
        \o << <<>> >>

ExampleSheets ==
    << [title |-> <<"S","h","e","e","t","1">>,
        rows |-> << <<IntCell(1), IntCell(2)>>, <<IntCell(3), NoneCell>> >>] >>

ExampleText ==
    << "S","h","e","e","t",":"," ","S","h","e","e","t","1","\n",
       "1","\t","2","\n",
       "3","\t","\n",
       "\n" >>

C7_XlsxFormat ==
    (Done /\ PerFormat /\ Lower(file.suffix) = XlsxExt /\ result.kind = "ok") =>
        LET sheets == file.doc.sheets
            lines == SplitLines(result.text, <<>>)
            k == Len(sheets)
        IN  /\ lines = Concat([i \in 1..k |-> SheetLines(sheets[i])]) \o << <<>> >>
            /\ Len(SelectSeq(lines, IsHeaderLine)) = k
            /\ Len(result.text) >= 2
            /\ SubSeq(result.text, Len(result.text) - 1, Len(result.text))
                   = <<"\n", "\n">>
            /\ sheets = ExampleSheets => result.text = ExampleText

C7_Witness ==
    /\ Done
    /\ PerFormat
    /\ file.exists
    /\ Lower(file.suffix) = XlsxExt
    /\ result = Ok(ExampleText, 0)
    /\ file.doc.sheets = ExampleSheets

(* C8, as stated: for every plain-text extension, directly read or         *)
(* pre-read, a within-limit file that is not valid UTF-8 ends in a decode  *)
(* error, and an error-level log entry naming the file was written before  *)
(* the error reached the caller.                                           *)
C8_DecodeErrorLogged ==
    (Done /\ Validated /\ Lower(file.suffix) \in TextExts
          /\ ~Utf8Decode(file.head).ok) =>
        /\ result = DecodeError
        /\ ErrorLogs # <<>>

(* C9: an install failure is recovered only by the DOCX/PPTX fallback:     *)
(* when the last install of a call raises, the call fails with that        *)
(* install error and imports and opens no library; a call makes at most    *)
(* two installs, and two only for .docx/.pptx in per-format mode after the *)
(* primary raised; only such a primary failure is survived.                *)
C9_InstallFailures ==
    Done =>
        LET n == Len(Installs) IN
        /\ n <= 2
        /\ n = 2 =>
              /\ PerFormat
              /\ Lower(file.suffix) \in {DocxExt, PptxExt}
              /\ Installs[1].raised
        /\ (n >= 1 /\ Installs[n].raised) =>
              /\ result = InstallError(Installs[n].package)
              /\ Opens = <<>>
              /\ Imports = <<>>
        /\ \A i \in 1..n :
              (Installs[i].raised /\ result.kind # "InstallError") =>
                  /\ i = 1 /\ n = 2
                  /\ Installs[1].package = PrimaryOf(Lower(file.suffix))

C9_Witness ==
    /\ Done
    /\ Lower(file.suffix) = PptxExt
    /\ Len(Installs) = 2
    /\ Installs[1].raised /\ Installs[2].raised
    /\ result = InstallError(args.pptx_reader_fallback)

C9_WitnessSingle ==
    /\ Done
    /\ Lower(file.suffix) = XlsxExt
    /\ PerFormat
    /\ Len(Installs) = 1
    /\ Installs[1].raised
    /\ result = InstallError(args.xlsx_reader)

(* C10: a call that ends in NotFound, TooLarge or UnsupportedType has      *)
(* installed nothing and imported and opened no library; every install     *)
(* comes after the existence check, the size check and the dispatch on the *)
(* extension, and before any library is opened; no step changes args.      *)
Position(name) == CHOOSE i \in 1..Len(trace) : trace[i].ev = name

Happened(name) == \E i \in 1..Len(trace) : trace[i].ev = name

ValidationBeforeEffects ==
    /\ (Done /\ (IsNotFound \/ IsTooLarge \/ IsUnsupported)) =>
          /\ Installs = <<>>
          /\ Opens = <<>>
          /\ Imports = <<>>
    /\ \A i \in 1..Len(trace) :
          IsInstall(trace[i]) =>
              /\ file.exists
              /\ Happened("exists") /\ Position("exists") < i
              /\ Happened("stat") /\ Position("stat") < i
              /\ Size(file) <= EffectiveLimit * MB
              /\ ext \in DocExts
              /\ \A j \in 1..Len(trace) : IsOpen(trace[j]) => i < j

C10_ValidationFirst == [] ValidationBeforeEffects /\ [][args' = args]_vars

C10_Witness ==
    /\ Done
    /\ Lower(file.suffix) = PdfExt
    /\ engine = "DEFAULT"
    /\ Len(Installs) = 1
    /\ Len(Opens) = 1
    /\ result.kind = "ok"

====
